---- MODULE Spec2Model ----
(***************************************************************************)
(* ForumApiService (forumApi.service.ts): the request orchestrator with    *)
(* its response cache, retry loop with exponential backoff, transport      *)
(* attempt with timeout and cancellation, and in-flight request registry.  *)
(*                                                                         *)
(* Time is the value of Date.now(), in ms, observed every TickMs.  The     *)
(* global fetch, the response body and the callers are the environment.   *)
(***************************************************************************)
EXTENDS Integers, Sequences, FiniteSets, TLC

\* ------------------------------------------------------------------------
\* Bounds of the model
\* ------------------------------------------------------------------------
MaxRetriesBound == 2     \* config.maxRetries ranges over 0..MaxRetriesBound
MaxTicks == 2            \* Date.now() is observed at 0, TickMs, .. MaxTicks * TickMs
TickMs == 30000          \* the ms between two observations of Date.now()
MaxCalls == 2            \* logical requests started in one behaviour

RetryDelays == {15000}     \* values of config.retryDelay, in ms (the default is 1000)
CacheTTLs == {30000}           \* values of config.cacheTTL, in ms
Timeouts == {60000}            \* values of config.timeout, in ms
TimeoutOverrides == {30000}    \* values of options.timeout, in ms
Garbled == "garbled"     \* a body that response.json() rejects
Statuses == {200, 304, 400, 499, 500}
Callers == {"r1", "r2"}  \* the call sites that may have a request pending
TopicIds == {1}          \* the topic ids passed to fetchTopicDetails

\* `topic-${topicId}`
topicKey(topicId) == IF topicId = 1 THEN "topic-1" ELSE "topic-n"
\* `/t/${topicId}`
topicEndpoint(topicId) == IF topicId = 1 THEN "/t/1" ELSE "/t/n"

CacheKeys == {"latest-topics"} \cup {topicKey(i) : i \in TopicIds}
Endpoints == {"/latest"} \cup {topicEndpoint(i) : i \in TopicIds}
MapKeys == CacheKeys \cup Endpoints   \* strings used as keys of either Map

None == "none"
NoEntry == [data |-> None, timestamp |-> 0, ttl |-> 0]
NoCtrl == [call |-> 0, attempt |-> 0]
NoErr == [kind |-> None, status |-> 0, timeout |-> 0]

VARIABLES
    config,          \* this.config
    cache,           \* this.cache: key -> CacheEntry, NoEntry when absent
    activeRequests,  \* this.activeRequests: key -> AbortController
    timers,          \* pending setTimeout(() => controller.abort(), timeout)
    req,             \* one pending or settled logical request per caller
    now,             \* Date.now(), in ms since the construction
    nextCleanup,     \* when the setInterval of the constructor fires next
    started,         \* logical requests started so far
    callers          \* the call sites that issue requests

vars == <<config, cache, activeRequests, timers, req, now, nextCleanup,
          started, callers>>

\* setInterval(() => this.cleanupCache(), 60000)
CleanupInterval == 60000

\* ------------------------------------------------------------------------
\* Errors (./errors)
\* ------------------------------------------------------------------------
NetworkError == [kind |-> "Network", status |-> 0, timeout |-> 0]
TimeoutError(timeout) == [kind |-> "Timeout", status |-> 0, timeout |-> timeout]
HttpError(status) == [kind |-> "Http", status |-> status, timeout |-> 0]
ParseError == [kind |-> "Parse", status |-> 0, timeout |-> 0]
CancellationError == [kind |-> "Cancellation", status |-> 0, timeout |-> 0]
ApiError == [kind |-> "Api", status |-> 0, timeout |-> 0]

\* isClientError that starts at 401
isClientErrorFrom401(error) == error.status > 400 /\ error.status < 500

isClientError(error) == error.status >= 400 /\ error.status < 500

isServerError(error) == error.status >= 500 /\ error.status < 600

\* response.ok that also accepts the redirections
ResponseOkBelow400(status) == status >= 200 /\ status <= 399

\* response.ok
ResponseOk(status) == status >= 200 /\ status <= 299

\* ------------------------------------------------------------------------
\* Cache layer
\* ------------------------------------------------------------------------
\* isExpired with the boundary on the wrong side: age >= entry.ttl
isExpiredAtTtl(entry, t) == t - entry.timestamp >= entry.ttl

\* age > entry.ttl
isExpired(entry, t) == t - entry.timestamp > entry.ttl

\* getFromCache: the value returned, None for null
getFromCache(key) ==
    IF cache[key] = NoEntry THEN None
    ELSE IF isExpired(cache[key], now) THEN None
    ELSE cache[key].data

\* getFromCache that clears the whole cache when it finds an expired entry
cacheAfterGetClearing(key) ==
    IF cache[key] # NoEntry /\ isExpired(cache[key], now)
    THEN [k \in DOMAIN cache |-> NoEntry]
    ELSE cache

\* getFromCache with a sliding expiry: a hit renews the timestamp
cacheAfterGetRenewing(key) ==
    IF cache[key] = NoEntry THEN cache
    ELSE IF isExpired(cache[key], now) THEN [cache EXCEPT ![key] = NoEntry]
    ELSE [cache EXCEPT ![key].timestamp = now]

\* getFromCache: the cache it leaves
cacheAfterGet(key) ==
    IF cache[key] # NoEntry /\ isExpired(cache[key], now)
    THEN [cache EXCEPT ![key] = NoEntry]
    ELSE cache

\* setCache that stores the time of expiry as the timestamp
setCacheExpiresAt(c, key, data, ttl) ==
    [c EXCEPT ![key] = [data |-> data, timestamp |-> now + ttl, ttl |-> ttl]]

\* setCache
setCache(c, key, data, ttl) ==
    [c EXCEPT ![key] = [data |-> data, timestamp |-> now, ttl |-> ttl]]

\* a cleanupCache that deletes every entry it visits
cleanupCacheAll(c) == [k \in DOMAIN c |-> NoEntry]

\* cleanupCache
cleanupCache(c) ==
    [k \in DOMAIN c |->
        IF c[k] # NoEntry /\ isExpired(c[k], now) THEN NoEntry ELSE c[k]]

\* getCacheSize
getCacheSize == Cardinality({k \in DOMAIN cache : cache[k] # NoEntry})

\* getCacheStats: the snapshot it returns
getCacheStats ==
    LET entries == {k \in DOMAIN cache : cache[k] # NoEntry} IN
    [totalEntries |-> Cardinality(entries),
     entries |-> {[key |-> k,
                   age |-> now - cache[k].timestamp,
                   ttl |-> cache[k].ttl,
                   expired |-> now - cache[k].timestamp > cache[k].ttl] :
                  k \in entries}]

\* a getCacheStats that evicts the entries it reports as expired
cacheAfterStatsEvicting == cleanupCache(cache)

\* getCacheStats: the cache it leaves (it calls no set, delete or clear)
cacheAfterStats == cache

\* useCache that never consults the cache
useCacheNever(skipCache) == FALSE

\* useCache that ignores options.skipCache
useCacheIgnoringSkip(skipCache) == config.enableCache

\* whether fetchWithCache consults the cache: !options?.skipCache &&
\* this.config.enableCache
useCache(skipCache) == ~skipCache /\ config.enableCache

\* ------------------------------------------------------------------------
\* Retry layer
\* ------------------------------------------------------------------------
RECURSIVE Pow2(_)
Pow2(n) == IF n = 0 THEN 1 ELSE 2 * Pow2(n - 1)

\* shouldRetry with attempt <= maxRetries: one retry too many
shouldRetryOnceMore(error, attempt, skipRetries) ==
    /\ attempt <= config.maxRetries
    /\ ~skipRetries
    /\ ~(error.kind = "Http" /\ isClientError(error))
    /\ error.kind # "Cancellation"

\* shouldRetry without the client error test
shouldRetryClientErrors(error, attempt, skipRetries) ==
    /\ attempt < config.maxRetries
    /\ ~skipRetries
    /\ error.kind # "Cancellation"

\* shouldRetry that gives up on a timeout
shouldRetryButTimeouts(error, attempt, skipRetries) ==
    /\ attempt < config.maxRetries
    /\ ~skipRetries
    /\ ~(error.kind = "Http" /\ isClientError(error))
    /\ error.kind # "Cancellation"
    /\ error.kind # "Timeout"

\* shouldRetry without the skipRetries test
shouldRetryIgnoringSkip(error, attempt, skipRetries) ==
    /\ attempt < config.maxRetries
    /\ ~(error.kind = "Http" /\ isClientError(error))
    /\ error.kind # "Cancellation"

\* const shouldRetry = ...
shouldRetry(error, attempt, skipRetries) ==
    /\ attempt < config.maxRetries
    /\ ~skipRetries
    /\ ~(error.kind = "Http" /\ isClientError(error))
    /\ error.kind # "Cancellation"

\* backoff with the exponent one too high
backoffDoubled(retryDelay, attempt) == retryDelay * Pow2(attempt + 1)

\* retryDelay * Math.pow(2, attempt)
backoff(retryDelay, attempt) == retryDelay * Pow2(attempt)

\* const delay = this.config.retryDelay * Math.pow(2, attempt)
backoffDelay(attempt) == backoff(config.retryDelay, attempt)

\* a sleep that does not wait
sleepUntilNow(ms) == now

\* sleep(ms): the time at which the timer of the sleep is due
sleepUntil(ms) == now + ms

\* ------------------------------------------------------------------------
\* Logical requests
\* ------------------------------------------------------------------------
InFlight(rq) == rq.pc \in {"fetching", "decoding"}
Pending(rq) == rq.pc \in {"fetching", "decoding", "sleeping"}

\* One logical request: the options it was called with, the attempt index
\* of fetchWithRetry, the controller, start time and response of the attempt
\* it awaits, the sleep it is in, and its outcome.  calls counts the calls of
\* the global fetch, failedAt is when the last attempt failed, hadEntry
\* tells whether an unexpired entry existed for its key when it started, and
\* cause is what first called abort() on the controller of the last attempt;
\* override is options.timeout, {} when the caller gave none; asleep tells
\* that the external signal was aborted while the request slept in a backoff.
IdleReq ==
    [pc |-> "idle", key |-> None, endpoint |-> None,
     skipCache |-> FALSE, skipRetries |-> FALSE, signal |-> None,
     timeout |-> 0, override |-> {}, call |-> 0, attempt |-> 0, calls |-> 0,
     ctrl |-> NoCtrl, aborted |-> FALSE, cause |-> None, asleep |-> None,
     startedAt |-> 0,
     status |-> 0, body |-> None,
     failedAt |-> 0, delay |-> 0, wakeAt |-> 0,
     err |-> NoErr, data |-> None, fromCache |-> FALSE, hadEntry |-> FALSE]

RequestOptions ==
    [skipCache : BOOLEAN, skipRetries : BOOLEAN,
     signal : {None, "live", "aborted"},
     timeout : {{}} \cup {{t} : t \in TimeoutOverrides}]

\* options?.timeout ?? this.config.timeout (options.timeout is {} when the
\* caller gave none, {t} when the caller gave t)
effectiveTimeout(options) ==
    IF options.timeout = {} THEN config.timeout
    ELSE CHOOSE t \in options.timeout : TRUE

\* options.signal.addEventListener('abort', () => controller.abort()): the
\* controllers aborted when the signal of rq dispatches its abort event
signalListeners(rq) == IF rq.signal # None THEN {rq.ctrl} ELSE {}

\* what is left of a logical request once it has settled
settled(rq) ==
    [rq EXCEPT !.ctrl = NoCtrl, !.aborted = FALSE, !.body = None,
               !.startedAt = 0, !.failedAt = 0, !.wakeAt = 0, !.delay = 0,
               !.timeout = 0, !.override = {}, !.signal = None]

\* the decodable body the server sends in answer to a logical request: one
\* payload per logical request, so that a stored payload and a fresh one differ
Payload(rq) == IF rq.call = 1 THEN "p1" ELSE IF rq.call = 2 THEN "p2" ELSE "p3"

\* controller.abort() on each of the controllers cs, called by why (the
\* timeout timer, the listener of the external signal, cancelRequest or
\* cancelAllRequests); abort() on an aborted controller does nothing
abortControllers(rs, cs, why) ==
    [r \in DOMAIN rs |->
        IF InFlight(rs[r]) /\ rs[r].ctrl \in cs /\ ~rs[r].aborted
        THEN [rs[r] EXCEPT !.aborted = TRUE, !.cause = why]
        ELSE rs[r]]

\* a clearTimeout that leaves the timer pending
clearTimeoutNothing(ts, ctrl) == ts

\* clearTimeout(timeoutId)
clearTimeout(ts, ctrl) == {t \in ts : t.ctrl # ctrl}

\* a fetch that starts no timeout timer
fetchWithoutTimeout(r, rq) ==
    LET controller == [call |-> rq.call, attempt |-> rq.attempt] IN
    /\ req' = [req EXCEPT ![r] =
                 [rq EXCEPT !.pc = "fetching",
                            !.ctrl = controller,
                            !.aborted = FALSE,
                            !.cause = None,
                            !.calls = @ + 1,
                            !.startedAt = now,
                            !.status = 0,
                            !.body = None,
                            !.err = NoErr]]
    /\ timers' = timers
    /\ activeRequests' = [activeRequests EXCEPT ![rq.endpoint] = controller]

\* fetch, up to its await of the global fetch: a new controller, its timer,
\* the listener on the external signal and the registration
fetch(r, rq) ==
    LET controller == [call |-> rq.call, attempt |-> rq.attempt] IN
    /\ req' = [req EXCEPT ![r] =
                 [rq EXCEPT !.pc = "fetching",
                            !.ctrl = controller,
                            !.aborted = FALSE,
                            !.cause = None,
                            !.calls = @ + 1,
                            !.startedAt = now,
                            !.status = 0,
                            !.body = None,
                            !.err = NoErr]]
    /\ timers' = timers \cup {[ctrl |-> controller, due |-> now + rq.timeout]}
    /\ activeRequests' = [activeRequests EXCEPT ![rq.endpoint] = controller]

\* a catch block that rejects with a generic error once it gives up
fetchFailedWrapping(r, rq, error) ==
    IF shouldRetry(error, rq.attempt, rq.skipRetries)
    THEN [rq EXCEPT !.pc = "sleeping",
                    !.err = error,
                    !.ctrl = NoCtrl,
                    !.aborted = FALSE,
                    !.startedAt = 0,
                    !.body = None,
                    !.failedAt = now,
                    !.delay = backoffDelay(rq.attempt),
                    !.wakeAt = sleepUntil(backoffDelay(rq.attempt))]
    ELSE settled([rq EXCEPT !.pc = "rejected", !.err = ApiError])

\* the catch block of fetchWithRetry
fetchFailed(r, rq, error) ==
    IF shouldRetry(error, rq.attempt, rq.skipRetries)
    THEN [rq EXCEPT !.pc = "sleeping",
                    !.err = error,
                    !.ctrl = NoCtrl,
                    !.aborted = FALSE,
                    !.startedAt = 0,
                    !.body = None,
                    !.failedAt = now,
                    !.delay = backoffDelay(rq.attempt),
                    !.wakeAt = sleepUntil(backoffDelay(rq.attempt))]
    ELSE settled([rq EXCEPT !.pc = "rejected", !.err = error])

\* a success after which fetchWithRetry goes on to retry
fetchSucceededAndRetried(r, rq, data) ==
    [rq EXCEPT !.pc = "sleeping", !.data = data, !.ctrl = NoCtrl,
               !.body = None, !.startedAt = 0, !.failedAt = now,
               !.delay = backoffDelay(rq.attempt),
               !.wakeAt = sleepUntil(backoffDelay(rq.attempt))]

\* fetch returns data, fetchWithRetry returns it and fetchWithCache returns it
fetchSucceeded(r, rq, data) ==
    settled([rq EXCEPT !.pc = "resolved", !.data = data, !.err = NoErr])

\* a catch block that wraps every error of the try block as a NetworkError
catchClassifiedAsNetwork(error) == NetworkError

\* the catch block of fetch for an error thrown by the try block itself: an
\* instance of ApiError is thrown on as it is
catchClassified(error) == IF error.kind # None THEN error ELSE ApiError

\* classify that does not recognise the AbortError as an Error
classifyAbortAsUnknown(thrown, rq) ==
    IF thrown = "TypeError" THEN NetworkError ELSE ApiError

\* the catch block of fetch: the error it throws for what the global fetch threw
classify(thrown, rq) ==
    IF thrown = "AbortError"
    THEN IF rq.signal = "aborted" THEN CancellationError
         ELSE TimeoutError(rq.timeout)
    ELSE IF thrown = "TypeError" THEN NetworkError
    ELSE ApiError

\* fetchWithCache that stores whatever the attempt left, failed or not
cacheAfterFetchAlways(rq, ok) ==
    IF config.enableCache
    THEN setCache(cache, rq.key, rq.body, config.cacheTTL)
    ELSE cache

\* fetchWithCache that does not store again under a key whose entry was
\* removed while the request was in flight
cacheAfterFetchUnlessRemoved(rq, ok) ==
    IF ok /\ config.enableCache /\ ~(rq.hadEntry /\ cache[rq.key] = NoEntry)
    THEN setCache(cache, rq.key, rq.body, config.cacheTTL)
    ELSE cache

\* fetchWithCache that stores without looking at enableCache
cacheAfterFetchIgnoringEnable(rq, ok) ==
    IF ok
    THEN setCache(cache, rq.key, rq.body, config.cacheTTL)
    ELSE cache

\* fetchWithCache that keeps the entry another request has stored meanwhile
cacheAfterFetchIfAbsent(rq, ok) ==
    IF ok /\ config.enableCache /\ cache[rq.key] = NoEntry
    THEN setCache(cache, rq.key, rq.body, config.cacheTTL)
    ELSE cache

\* fetchWithCache after its await of fetchWithRetry: the store is reached
\* only when the await returned (ok), not when it threw
cacheAfterFetch(rq, ok) ==
    IF ok /\ config.enableCache
    THEN setCache(cache, rq.key, rq.body, config.cacheTTL)
    ELSE cache

\* fetchWithCache
fetchWithCache(r, endpoint, cacheKey, options) ==
    LET rq == [IdleReq EXCEPT
                 !.key = cacheKey, !.endpoint = endpoint,
                 !.skipCache = options.skipCache,
                 !.skipRetries = options.skipRetries,
                 !.signal = options.signal,
                 !.timeout = effectiveTimeout(options),
                 !.override = options.timeout,
                 !.call = started + 1,
                 !.hadEntry = /\ cache[cacheKey] # NoEntry
                              /\ now - cache[cacheKey].timestamp
                                    <= cache[cacheKey].ttl]
        cached == getFromCache(cacheKey)
    IN
    /\ r \in callers
    /\ ~Pending(req[r])
    /\ started < MaxCalls
    /\ started' = started + 1
    /\ IF useCache(options.skipCache) /\ cached # None
       THEN /\ req' = [req EXCEPT ![r] =
                         settled([rq EXCEPT !.pc = "resolved",
                                               !.data = cached,
                                               !.fromCache = TRUE])]
            /\ cache' = cacheAfterGet(cacheKey)
            /\ UNCHANGED <<timers, activeRequests>>
       ELSE /\ cache' = IF useCache(options.skipCache)
                        THEN cacheAfterGet(cacheKey) ELSE cache
            /\ fetch(r, rq)
    /\ UNCHANGED <<config, now, nextCleanup, callers>>

fetchLatestTopics(r, options) ==
    fetchWithCache(r, "/latest", "latest-topics", options)

fetchTopicDetails(r, topicId, options) ==
    fetchWithCache(r, topicEndpoint(topicId), topicKey(topicId), options)

\* the global fetch resolves with a response, whose body decodes or not
fetchResponds(r, status, decodable) ==
    LET rq == req[r] IN
    /\ rq.pc = "fetching"
    /\ ~rq.aborted
    /\ timers' = clearTimeout(timers, rq.ctrl)
    /\ activeRequests' = [activeRequests EXCEPT ![rq.endpoint] = NoCtrl]
    /\ req' = [req EXCEPT ![r] =
                 IF ~ResponseOk(status)
                 THEN fetchFailed(r, [rq EXCEPT !.status = status],
                                  catchClassified(HttpError(status)))
                 ELSE [rq EXCEPT !.pc = "decoding",
                                 !.status = status,
                                 !.body = IF decodable THEN Payload(rq)
                                          ELSE Garbled]]
    /\ UNCHANGED <<config, cache, now, nextCleanup, started, callers>>

\* the global fetch rejects
fetchRejects(r, thrown) ==
    LET rq == req[r] IN
    /\ rq.pc = "fetching"
    /\ rq.aborted <=> thrown = "AbortError"
    /\ timers' = clearTimeout(timers, rq.ctrl)
    /\ req' = [req EXCEPT ![r] = fetchFailed(r, rq, classify(thrown, rq))]
    /\ UNCHANGED <<config, cache, activeRequests, now, nextCleanup, started, callers>>

\* response.json() settles
jsonSettles(r) ==
    LET rq == req[r] IN
    /\ rq.pc = "decoding"
    /\ IF rq.aborted \/ rq.body = Garbled
       THEN /\ req' = [req EXCEPT ![r] =
                         fetchFailed(r, rq, catchClassified(ParseError))]
            /\ cache' = cacheAfterFetch(rq, FALSE)
       ELSE /\ req' = [req EXCEPT ![r] =
                         fetchSucceeded(r, rq, rq.body)]
            /\ cache' = cacheAfterFetch(rq, TRUE)
    /\ UNCHANGED <<config, activeRequests, timers, now, nextCleanup, started, callers>>

\* the sleep of fetchWithRetry ends and the next attempt starts
retry(r) ==
    LET rq == req[r] IN
    /\ rq.pc = "sleeping"
    /\ now >= rq.wakeAt
    /\ fetch(r, [rq EXCEPT !.attempt = @ + 1])
    /\ UNCHANGED <<config, cache, now, nextCleanup, started, callers>>

\* the timeout timer of an attempt fires
timeoutFires(t) ==
    /\ t \in timers
    /\ now >= t.due
    /\ timers' = timers \ {t}
    /\ req' = abortControllers(req, {t.ctrl}, "timeout")
    /\ UNCHANGED <<config, cache, activeRequests, now, nextCleanup, started, callers>>

\* the caller aborts the signal it passed in options.signal
signalAborts(r) ==
    /\ Pending(req[r])
    /\ req[r].signal = "live"
    /\ req' = [abortControllers(req, signalListeners(req[r]), "signal")
                 EXCEPT ![r].signal = "aborted",
                        ![r].asleep = IF req[r].pc = "sleeping"
                                      THEN "signal" ELSE @]
    /\ UNCHANGED <<config, cache, activeRequests, timers, now, nextCleanup,
                   started, callers>>

\* cancelAllRequests that also clears the cache
cancelAllRequestsAndCache ==
    /\ req' = abortControllers(req,
                 {activeRequests[k] : k \in DOMAIN activeRequests} \ {NoCtrl},
                 "cancelAllRequests")
    /\ activeRequests' = [k \in DOMAIN activeRequests |-> NoCtrl]
    /\ cache' = [k \in DOMAIN cache |-> NoEntry]
    /\ UNCHANGED <<config, timers, now, nextCleanup, started, callers>>

\* a forEach that stops after the handle of the latest topics
reqAfterCancelAllOfLatest ==
    abortControllers(req, {activeRequests["/latest"]} \ {NoCtrl},
                     "cancelAllRequests")

\* this.activeRequests.forEach((controller) => controller.abort()): the
\* requests it leaves
reqAfterCancelAll ==
    abortControllers(req,
        {activeRequests[k] : k \in DOMAIN activeRequests} \ {NoCtrl},
        "cancelAllRequests")

\* this.activeRequests.clear()
activeRequestsAfterCancelAll == [k \in DOMAIN activeRequests |-> NoCtrl]

cancelAllRequests ==
    /\ req' = reqAfterCancelAll
    /\ activeRequests' = activeRequestsAfterCancelAll
    /\ UNCHANGED <<config, cache, timers, now, nextCleanup, started, callers>>

\* cancelRequest: the requests it leaves, after controller.abort() on the
\* handle found under cacheKey, if any
reqAfterCancel(cacheKey) ==
    IF activeRequests[cacheKey] # NoCtrl
    THEN abortControllers(req, {activeRequests[cacheKey]}, "cancelRequest")
    ELSE req

\* a cancelRequest that empties the registry
activeRequestsAfterCancelClearing(cacheKey) ==
    IF activeRequests[cacheKey] # NoCtrl
    THEN [k \in DOMAIN activeRequests |-> NoCtrl]
    ELSE activeRequests

\* cancelRequest: the registry it leaves
activeRequestsAfterCancel(cacheKey) ==
    IF activeRequests[cacheKey] # NoCtrl
    THEN [activeRequests EXCEPT ![cacheKey] = NoCtrl]
    ELSE activeRequests

cancelRequest(cacheKey) ==
    /\ req' = reqAfterCancel(cacheKey)
    /\ activeRequests' = activeRequestsAfterCancel(cacheKey)
    /\ UNCHANGED <<config, cache, timers, now, nextCleanup, started, callers>>

\* this.cache.clear()
cacheCleared(c) == [k \in DOMAIN c |-> NoEntry]

\* a delete that clears every entry
cacheWithoutAny(c, key) == [k \in DOMAIN c |-> NoEntry]

\* this.cache.delete(key)
cacheWithout(c, key) == [c EXCEPT ![key] = NoEntry]

clearCache ==
    /\ cache' = cacheCleared(cache)
    /\ UNCHANGED <<config, activeRequests, timers, req, now, nextCleanup,
                   started, callers>>

clearCacheEntry(key) ==
    /\ cache' = cacheWithout(cache, key)
    /\ UNCHANGED <<config, activeRequests, timers, req, now, nextCleanup,
                   started, callers>>

\* a call of getCacheStats
readCacheStats ==
    /\ cache' = cacheAfterStats
    /\ UNCHANGED <<config, activeRequests, timers, req, now, nextCleanup,
                   started, callers>>

\* the interval timer of the constructor fires
cleanupTimerFires ==
    /\ config.enableCache
    /\ now >= nextCleanup
    /\ cache' = cleanupCache(cache)
    /\ nextCleanup' = nextCleanup + CleanupInterval
    /\ UNCHANGED <<config, activeRequests, timers, req, now, started, callers>>

\* a timer (a timeout, a sleep, the cleanup interval) is due and has not run
TimerDue ==
    \/ \E t \in timers : t.due <= now
    \/ \E r \in DOMAIN req : req[r].pc = "sleeping" /\ req[r].wakeAt <= now
    \/ config.enableCache /\ nextCleanup <= now

\* Date.now() advances; the event loop runs every timer the tick in which it
\* is due
Tick ==
    /\ now + TickMs <= MaxTicks * TickMs
    /\ ~TimerDue
    /\ now' = now + TickMs
    /\ UNCHANGED <<config, cache, activeRequests, timers, req, nextCleanup,
                   started, callers>>

\* ------------------------------------------------------------------------
\* Specification
\* ------------------------------------------------------------------------
\* the defaults of the constructor
DefaultConfig ==
    [timeout |-> 10000, maxRetries |-> 3, retryDelay |-> 1000,
     cacheTTL |-> 5 * 60 * 1000, enableCache |-> TRUE]

\* the configurations the service is constructed with
Configs ==
    [maxRetries : 0 .. MaxRetriesBound, retryDelay : RetryDelays,
     cacheTTL : CacheTTLs, enableCache : BOOLEAN, timeout : Timeouts]
    \cup {DefaultConfig}

Init ==
    /\ config \in Configs
    /\ cache = [k \in MapKeys |-> NoEntry]
    /\ activeRequests = [k \in MapKeys |-> NoCtrl]
    /\ timers = {}
    /\ req = [r \in Callers |-> IdleReq]
    /\ now = 0
    /\ nextCleanup = CleanupInterval
    /\ started = 0
    /\ callers = {"r1"}

Next ==
    \/ \E r \in Callers, o \in RequestOptions : fetchLatestTopics(r, o)
    \/ \E r \in Callers, i \in TopicIds, o \in RequestOptions :
          fetchTopicDetails(r, i, o)
    \/ \E r \in Callers, s \in Statuses, decodable \in BOOLEAN :
          fetchResponds(r, s, decodable)
    \/ \E r \in Callers, e \in {"AbortError", "TypeError", "NonError"} :
          fetchRejects(r, e)
    \/ \E r \in Callers : jsonSettles(r)
    \/ \E r \in Callers : retry(r)
    \/ \E t \in timers : timeoutFires(t)
    \/ \E r \in Callers : signalAborts(r)
    \/ cancelAllRequests
    \/ \E k \in MapKeys : cancelRequest(k)
    \/ clearCache
    \/ \E k \in MapKeys : clearCacheEntry(k)
    \/ cleanupTimerFires
    \/ Tick

Spec == Init /\ [][Next]_vars

\* Two call sites that request the latest topics or a topic concurrently,
\* with the options left out, from a service that retries once
ConcConfig ==
    [timeout |-> 60000, maxRetries |-> 1, retryDelay |-> 15000,
     cacheTTL |-> 30000, enableCache |-> TRUE]

ConcOptions ==
    [skipCache : {FALSE}, skipRetries : {FALSE}, signal : {None},
     timeout : {{}}]

ConcInit ==
    /\ config = ConcConfig
    /\ cache = [k \in MapKeys |-> NoEntry]
    /\ activeRequests = [k \in MapKeys |-> NoCtrl]
    /\ timers = {}
    /\ req = [r \in Callers |-> IdleReq]
    /\ now = 0
    /\ nextCleanup = CleanupInterval
    /\ started = 0
    /\ callers = Callers

ConcNext ==
    \/ \E r \in Callers, o \in ConcOptions : fetchLatestTopics(r, o)
    \/ \E r \in Callers, i \in TopicIds, o \in ConcOptions :
          fetchTopicDetails(r, i, o)
    \/ \E r \in Callers, s \in {200, 500}, decodable \in BOOLEAN :
          fetchResponds(r, s, decodable)
    \/ \E r \in Callers, e \in {"AbortError", "TypeError"} :
          fetchRejects(r, e)
    \/ \E r \in Callers : jsonSettles(r)
    \/ \E r \in Callers : retry(r)
    \/ \E t \in timers : timeoutFires(t)
    \/ cancelAllRequests
    \/ \E k \in MapKeys : cancelRequest(k)
    \/ readCacheStats
    \/ cleanupTimerFires
    \/ Tick

ConcSpec == ConcInit /\ [][ConcNext]_vars

\* One call site under a platform that keeps its promises: time passes as
\* long as a request waits for a timer, timers that are due fire, the global
\* fetch of an aborted controller rejects, and response.json() settles
LiveConfigs ==
    [maxRetries : 0 .. MaxRetriesBound, retryDelay : RetryDelays,
     cacheTTL : CacheTTLs, enableCache : {TRUE}, timeout : Timeouts]

LiveInit ==
    /\ config \in LiveConfigs
    /\ cache = [k \in MapKeys |-> NoEntry]
    /\ activeRequests = [k \in MapKeys |-> NoCtrl]
    /\ timers = {}
    /\ req = [r \in Callers |-> IdleReq]
    /\ now = 0
    /\ nextCleanup = CleanupInterval
    /\ started = 0
    /\ callers = {"r1"}

\* a request waits for its sleep to end or for the timeout of its attempt
AwaitsTimer ==
    \E r \in Callers :
        \/ req[r].pc = "sleeping"
        \/ /\ req[r].pc = "fetching"
           /\ \E t \in timers : t.ctrl = req[r].ctrl

\* Date.now() advances, for as long as a request waits for a timer
LiveTick ==
    /\ now + TickMs <= MaxTicks * TickMs \/ AwaitsTimer
    /\ ~TimerDue
    /\ now' = now + TickMs
    /\ UNCHANGED <<config, cache, activeRequests, timers, req, nextCleanup,
                   started, callers>>

LiveNext ==
    \/ \E r \in Callers, o \in RequestOptions : fetchLatestTopics(r, o)
    \/ \E r \in Callers, s \in {200, 400, 500}, decodable \in BOOLEAN :
          fetchResponds(r, s, decodable)
    \/ \E r \in Callers, e \in {"AbortError", "TypeError"} :
          fetchRejects(r, e)
    \/ \E r \in Callers : jsonSettles(r)
    \/ \E r \in Callers : retry(r)
    \/ \E t \in timers : timeoutFires(t)
    \/ \E r \in Callers : signalAborts(r)
    \/ cancelAllRequests
    \/ \E k \in MapKeys : cancelRequest(k)
    \/ cleanupTimerFires
    \/ LiveTick

LiveFairness ==
    /\ WF_vars(LiveTick)
    /\ WF_vars(\E t \in timers : timeoutFires(t))
    /\ WF_vars(cleanupTimerFires)
    /\ WF_vars(\E r \in Callers : retry(r))
    /\ WF_vars(\E r \in Callers : fetchRejects(r, "AbortError"))
    /\ WF_vars(\E r \in Callers : jsonSettles(r))

LiveSpec == LiveInit /\ [][LiveNext]_vars /\ LiveFairness

\* ------------------------------------------------------------------------
\* Properties of the retry layer
\* ------------------------------------------------------------------------
\* an error that is neither a client error nor a cancellation: Network,
\* Timeout, or Http with a status outside [400, 500)
Transient(error) ==
    \/ error.kind \in {"Network", "Timeout"}
    \/ error.kind = "Http" /\ ~(error.status >= 400 /\ error.status < 500)

\* C1: a logical request without skipRetries that ends on a Network, Timeout
\* or non-4xx Http error rejects after exactly maxRetries + 1 transport
\* attempts, and no logical request ever makes more than maxRetries + 1.
C1_AttemptsWhenPersistentlyFailing ==
    \A r \in Callers :
        /\ req[r].calls <= config.maxRetries + 1
        /\ (req[r].pc = "rejected" /\ ~req[r].skipRetries
                /\ Transient(req[r].err))
              => req[r].calls = config.maxRetries + 1

C1_Witness ==
    \E r \in Callers :
        /\ req[r].pc = "rejected" /\ ~req[r].skipRetries
        /\ req[r].err.kind = "Network"
        /\ config.maxRetries = 2 /\ req[r].calls = 3

\* C2 as stated: a logical request that gets a response with a status in
\* [400, 500) has made exactly 1 transport attempt in total.
C2_ClientErrorMeansOneAttempt ==
    \A r \in Callers :
        (req[r].pc = "rejected" /\ req[r].status >= 400 /\ req[r].status < 500)
          => req[r].calls = 1

\* C2, amended: a response with a status s in [400, 500) is never followed by
\* a retry: the logical request rejects at once with an Http error carrying s,
\* so it makes exactly 1 transport attempt when that response answers its
\* first attempt, for every maxRetries.
C2_ClientErrorIsNotRetried ==
    \A r \in Callers :
        (req[r].pc \in {"sleeping", "rejected"}
            /\ req[r].status >= 400 /\ req[r].status < 500)
          => /\ req[r].pc = "rejected"
             /\ req[r].err.kind = "Http"
             /\ req[r].err.status = req[r].status
             /\ req[r].calls = req[r].attempt + 1
             /\ req[r].attempt = 0 => req[r].calls = 1

C2_Witness ==
    \E r \in Callers :
        /\ req[r].pc = "rejected" /\ req[r].status = 499
        /\ req[r].calls = 1 /\ config.maxRetries = 2

\* C3: after an attempt that failed with an Http error of status in
\* [500, 600), a Timeout error or a Network error, the request retries exactly
\* when attempts made so far (the attempt index) < maxRetries and skipRetries
\* is unset, and then waits retryDelay * 2^(attempt index): one rule, in which
\* the kind of the error does not occur.
C3_ServerErrorsAndTimeoutsRetryLikeNetworkErrors ==
    \A r \in Callers :
        (/\ req[r].pc \in {"sleeping", "rejected"}
         /\ \/ req[r].err.kind \in {"Network", "Timeout"}
            \/ /\ req[r].err.kind = "Http"
               /\ req[r].err.status >= 500 /\ req[r].err.status < 600)
          => /\ req[r].pc = "sleeping"
                  <=> (req[r].attempt < config.maxRetries
                         /\ ~req[r].skipRetries)
             /\ req[r].pc = "sleeping"
                  => req[r].delay = config.retryDelay * Pow2(req[r].attempt)

C3_Witness ==
    \E r \in Callers :
        /\ req[r].pc = "sleeping" /\ req[r].attempt = 1
        /\ req[r].err.kind = "Http" /\ req[r].err.status = 500
        /\ req[r].delay = 2 * config.retryDelay

\* C4: a logical request with skipRetries never sleeps for a retry and never
\* starts a second attempt; when it rejects it has made exactly 1 transport
\* attempt and carries the error of that attempt.
C4_SkipRetriesMeansOneAttempt ==
    \A r \in Callers :
        req[r].skipRetries
          => /\ req[r].pc # "sleeping"
             /\ req[r].attempt = 0
             /\ req[r].calls <= 1
             /\ req[r].pc = "rejected"
                  => (req[r].calls = 1 /\ req[r].err # NoErr)

C4_Witness ==
    \E r \in Callers :
        /\ req[r].pc = "rejected" /\ req[r].skipRetries
        /\ req[r].err.kind = "Network"
        /\ req[r].calls = 1 /\ config.maxRetries = 2

\* C5: a logical request that resolves over the network after k - 1 failed
\* attempts has made exactly k <= maxRetries + 1 transport attempts and
\* resolves with the payload of the last one; once an attempt has succeeded
\* the request has no attempt and no retry pending.
C5_ResolvesOnTheFirstSuccess ==
    \A r \in Callers :
        /\ (req[r].pc = "resolved" /\ ~req[r].fromCache)
             => /\ req[r].calls = req[r].attempt + 1
                /\ req[r].calls <= config.maxRetries + 1
                /\ req[r].data = Payload(req[r])
        /\ Pending(req[r]) => req[r].data = None

C5_Witness ==
    \E r \in Callers :
        /\ req[r].pc = "resolved" /\ ~req[r].fromCache
        /\ req[r].attempt = 2 /\ req[r].calls = 3
        /\ req[r].data = Payload(req[r])

\* C6: the delay a logical request waits before its transport attempt k
\* (0-indexed, k >= 1) is retryDelay * 2^(k-1), the sleep being due that long
\* after the failure of attempt k - 1; with the default configuration the
\* delays are 1000, 2000 and 4000 ms.
C6_BackoffDelay ==
    \A r \in Callers :
        req[r].pc = "sleeping"
          => LET k == req[r].attempt + 1 IN
             /\ req[r].delay = config.retryDelay * Pow2(k - 1)
             /\ req[r].wakeAt = req[r].failedAt + req[r].delay
             /\ config = DefaultConfig
                  => req[r].delay = <<1000, 2000, 4000>>[k]

C6_Witness ==
    \E r \in Callers :
        /\ config = DefaultConfig
        /\ req[r].pc = "sleeping" /\ req[r].attempt = 2
        /\ req[r].delay = 4000

\* the transport attempts of a logical request that have not settled: the
\* one it awaits and those whose timeout timer is still pending
UnsettledAttempts(rq) ==
    {t.ctrl : t \in {u \in timers : u.ctrl.call = rq.call}}
    \cup (IF InFlight(rq) THEN {rq.ctrl} ELSE {})

\* C7: a logical request has at most one transport attempt that has not
\* settled, and none while it sleeps; its attempt n + 1 starts no earlier than
\* the failure of attempt n plus the whole backoff delay retryDelay * 2^n.
C7_AttemptsAreSequential ==
    \A r \in Callers :
        /\ Cardinality(UnsettledAttempts(req[r])) <= 1
        /\ req[r].pc = "sleeping" => UnsettledAttempts(req[r]) = {}
        /\ (req[r].pc = "fetching" /\ req[r].attempt > 0)
             => req[r].startedAt >=
                  req[r].failedAt
                    + config.retryDelay * Pow2(req[r].attempt - 1)

C7_Witness ==
    \E r \in Callers :
        /\ req[r].pc = "fetching" /\ req[r].attempt = 2
        /\ req[r].startedAt = req[r].failedAt + 2 * config.retryDelay

\* ------------------------------------------------------------------------
\* Properties of the cache layer
\* ------------------------------------------------------------------------
\* the step in which caller r starts a logical request
Starts(r) == req'[r].call # req[r].call

\* C8: a fetch that reads the cache (caching enabled, skipCache unset) and
\* finds an entry stored at t0 with TTL T is served that entry's payload, with
\* no transport attempt, when now - t0 <= T, and otherwise treats the entry as
\* absent: it removes it and starts a transport attempt.
C8_EntryIsValidUpToItsTtl ==
    [][\A r \in Callers :
         LET rq == req'[r]
             entry == cache[rq.key]
         IN  (/\ Starts(r)
              /\ ~rq.skipCache /\ config.enableCache
              /\ entry # NoEntry)
               => IF now - entry.timestamp <= entry.ttl
                  THEN /\ rq.pc = "resolved"
                       /\ rq.data = entry.data
                       /\ rq.calls = 0
                  ELSE /\ rq.pc = "fetching"
                       /\ rq.calls = 1
                       /\ cache'[rq.key] = NoEntry]_vars

\* a request served from an entry that is exactly T old
C8_Witness ==
    \E r \in Callers :
        /\ req[r].pc = "resolved" /\ req[r].fromCache
        /\ cache[req[r].key] # NoEntry
        /\ req[r].data = cache[req[r].key].data
        /\ now - cache[req[r].key].timestamp = cache[req[r].key].ttl

\* C9: with caching enabled and skipCache unset, a fetch that finds a valid
\* entry for its key resolves with the stored payload and makes no transport
\* attempt: the registry, the timers, the cache and every other request are
\* left as they were.
C9_CacheHitMakesNoNetworkCall ==
    [][\A r \in Callers :
         LET rq == req'[r]
             entry == cache[rq.key]
         IN  (/\ Starts(r)
              /\ ~rq.skipCache /\ config.enableCache
              /\ entry # NoEntry
              /\ now - entry.timestamp <= entry.ttl)
               => /\ rq.pc = "resolved"
                  /\ rq.fromCache
                  /\ rq.data = entry.data
                  /\ rq.calls = 0
                  /\ UNCHANGED <<activeRequests, timers, cache>>
                  /\ \A o \in Callers \ {r} : req'[o] = req[o]]_vars

C9_Witness ==
    \E r \in Callers :
        /\ req[r].pc = "resolved" /\ req[r].fromCache
        /\ req[r].call = 2 /\ req[r].data = "p1" /\ req[r].calls = 0

\* C10: a fetch with skipCache starts a transport attempt even when a valid
\* entry exists for its key, and is never served from the cache; when it
\* succeeds (caching enabled) the entry of its key becomes the fresh payload
\* with the time of the store as timestamp.
C10_SkipCacheFetchesAndOverwrites ==
    [][\A r \in Callers :
         /\ (Starts(r) /\ req'[r].skipCache)
              => /\ req'[r].pc = "fetching"
                 /\ req'[r].calls = 1
                 /\ ~req'[r].fromCache
         /\ (/\ req[r].skipCache
             /\ req[r].pc = "decoding" /\ req'[r].pc = "resolved"
             /\ config.enableCache)
              => /\ req'[r].data = req[r].body
                 /\ cache'[req[r].key] =
                      [data |-> req[r].body, timestamp |-> now,
                       ttl |-> config.cacheTTL]]_vars

\* a skipCache request that found a valid entry and replaced it
C10_Witness ==
    \E r \in Callers :
        /\ req[r].pc = "resolved" /\ req[r].skipCache /\ req[r].hadEntry
        /\ req[r].calls >= 1
        /\ cache[req[r].key] =
             [data |-> "p2", timestamp |-> now, ttl |-> config.cacheTTL]

\* ------------------------------------------------------------------------
\* Properties of the orchestrator, the cancellation and the classification
\* ------------------------------------------------------------------------
\* C11: when a logical request succeeds over the network and caching is
\* enabled, in the step in which it returns the cache holds, under its logical
\* key ('latest-topics' for /latest, 'topic-<id>' for /t/<id>), the returned
\* payload with ttl = cacheTTL and timestamp = the time of the store.
C11_SuccessStoresTheResult ==
    [][\A r \in Callers :
         (/\ req[r].pc = "decoding" /\ req'[r].pc = "resolved"
          /\ config.enableCache)
           => /\ req'[r].key =
                   (IF req'[r].endpoint = "/latest" THEN "latest-topics"
                    ELSE "topic-1")
              /\ req'[r].data = req[r].body
              /\ cache'[req'[r].key] =
                   [data |-> req'[r].data, timestamp |-> now,
                    ttl |-> config.cacheTTL]]_vars

\* a topic request that succeeded on its second attempt and whose result is
\* the entry of 'topic-1', stored at the time it returned
C11_Witness ==
    \E r \in Callers :
        /\ req[r].pc = "resolved" /\ ~req[r].fromCache /\ ~req[r].skipCache
        /\ req[r].key = "topic-1" /\ req[r].attempt = 1 /\ now = TickMs
        /\ cache["topic-1"] =
             [data |-> req[r].data, timestamp |-> now, ttl |-> config.cacheTTL]

\* C12: a logical request that fails stores nothing: a failed attempt, a
\* retry and a rejection leave the cache as it was, the start of a request
\* changes it at most by removing the expired entry of its key, and an entry
\* is created or overwritten only in the step in which a request for its key
\* returns successfully.
C12_FailureStoresNothing ==
    [][/\ \A r \in Callers :
            (/\ req[r].pc \in {"fetching", "decoding"}
             /\ req'[r].pc \in {"sleeping", "rejected"})
              => cache' = cache
       /\ \A r \in Callers :
            (req[r].pc = "sleeping" /\ req'[r].pc = "fetching")
              => cache' = cache
       /\ \A r \in Callers :
            (Starts(r) /\ req'[r].pc = "fetching")
              => \A k \in MapKeys :
                   cache'[k] # cache[k]
                     => /\ k = req'[r].key
                        /\ ~req'[r].skipCache
                        /\ cache'[k] = NoEntry
                        /\ now - cache[k].timestamp > cache[k].ttl
       /\ \A k \in MapKeys :
            (cache'[k] # cache[k] /\ cache'[k] # NoEntry)
              => \E r \in Callers :
                   /\ req[r].pc = "decoding" /\ req'[r].pc = "resolved"
                   /\ req[r].key = k]_vars

\* a request that rejected after three attempts, the last one undecodable,
\* while the entry of its key is still the one an earlier request stored
C12_Witness ==
    \E r \in Callers :
        /\ req[r].pc = "rejected" /\ req[r].err.kind = "Parse"
        /\ req[r].call = 2 /\ req[r].hadEntry /\ req[r].skipCache
        /\ cache[req[r].key] # NoEntry
        /\ cache[req[r].key].data = "p1"

\* C13: a logical request whose in-flight attempt was aborted by
\* cancelAllRequests() settles by rejecting with a Cancellation (or Network)
\* error: it settles with no other kind and does not resolve.
C13_CancelAllRejectsWithCancellation ==
    \A r \in Callers :
        (req[r].cause = "cancelAllRequests"
            /\ req[r].pc \in {"resolved", "rejected"})
          => /\ req[r].pc = "rejected"
             /\ req[r].err.kind \in {"Cancellation", "Network"}

\* a step of cancelRequest or cancelAllRequests that finds a handle: the
\* registry changes while no request starts, retries or settles an attempt
CancelStep ==
    /\ activeRequests' # activeRequests
    /\ \A r \in Callers :
         req'[r].pc = req[r].pc /\ req'[r].calls = req[r].calls

\* C14: cancelAllRequests() and cancelRequest(key) leave the cache store
\* unchanged: every entry and getCacheSize() are the same after the call.
C14_CancelLeavesTheCacheUnchanged ==
    [][CancelStep
         => /\ \A k \in MapKeys : cache'[k] = cache[k]
            /\ getCacheSize' = getCacheSize]_vars

\* an attempt aborted by a cancel call while the cache holds an entry
C14_Witness ==
    \E r \in Callers :
        /\ req[r].pc = "fetching" /\ req[r].aborted
        /\ req[r].cause \in {"cancelRequest", "cancelAllRequests"}
        /\ activeRequests[req[r].endpoint] = NoCtrl
        /\ getCacheSize = 1

\* C15: while a transport attempt of a logical request awaits its response,
\* its controller is registered under the request's logical (cache) key,
\* 'latest-topics' or 'topic-<id>', unless a cancel call has removed it.
C15_RegisteredUnderTheLogicalKey ==
    \A r \in Callers :
        (req[r].pc = "fetching" /\ ~req[r].aborted)
          => activeRequests[req[r].key] = req[r].ctrl

\* C16: once the external signal of a request has aborted its in-flight
\* attempt, the request makes no further attempt and, as soon as the attempt
\* has settled, has rejected with a CancellationError.
C16_SignalRejectsWithCancellation ==
    \A r \in Callers :
        req[r].cause = "signal"
          => \/ req[r].pc \in {"fetching", "decoding"}
             \/ /\ req[r].pc = "rejected"
                /\ req[r].err.kind = "Cancellation"

\* C17: an attempt that was aborted and has failed yields a Cancellation error
\* if and only if the abort was caused by the external signal, and a Timeout
\* error carrying the effective timeout when it was caused by its timer.
C17_ClassifiedByTheCauseOfTheAbort ==
    \A r \in Callers :
        (req[r].cause # None /\ req[r].pc \in {"sleeping", "rejected"})
          => /\ req[r].err.kind = "Cancellation" <=> req[r].cause = "signal"
             /\ req[r].cause = "timeout"
                  => /\ req[r].err.kind = "Timeout"
                     /\ req[r].pc = "sleeping"
                          => req[r].err.timeout = req[r].timeout

C19_FailingStatusIsHttp ==
    \A r \in Callers :
        LET failing == req[r].status # 0
                         /\ (req[r].status < 200 \/ req[r].status > 299)
        IN  /\ req[r].pc = "decoding" => ~failing
            /\ (failing /\ req[r].pc \in {"sleeping", "rejected"})
                 => /\ req[r].err.kind = "Http"
                    /\ req[r].err.status = req[r].status
                    /\ req[r].body = None

\* a request rejected on a 304 after its retries
C19_Witness ==
    \E r \in Callers :
        /\ req[r].pc = "rejected" /\ req[r].status = 304
        /\ req[r].err.kind = "Http" /\ req[r].err.status = 304
        /\ req[r].calls = 2

\* C20: a logical request whose first transport attempt fails with a
\* ParseError is not retried: it rejects with that ParseError after exactly 1
\* transport attempt, whatever maxRetries is.
C20_ParseErrorIsNotRetried ==
    \A r \in Callers :
        (/\ req[r].err.kind = "Parse" /\ req[r].attempt = 0
         /\ req[r].pc \in {"sleeping", "rejected"})
          => req[r].pc = "rejected" /\ req[r].calls = 1

\* ------------------------------------------------------------------------
\* Properties of the registry, the timers and the passthroughs
\* ------------------------------------------------------------------------
\* C21: the registry holds only handles of attempts that have not settled:
\* every registered controller is the controller of an attempt in flight, so
\* the registry is empty when no logical request is in progress.
C21_RegistryHoldsOnlyUnsettledAttempts ==
    /\ \A k \in MapKeys :
         activeRequests[k] # NoCtrl
           => \E r \in Callers :
                /\ req[r].pc \in {"fetching", "decoding"}
                /\ req[r].ctrl = activeRequests[k]
    /\ (\A r \in Callers : req[r].pc \notin {"fetching", "decoding", "sleeping"})
         => \A k \in MapKeys : activeRequests[k] = NoCtrl

C23_ConcurrentRequestsAreNotCoalesced ==
    [][\A r \in Callers :
         /\ (/\ Starts(r)
             /\ \/ cache[req'[r].key] = NoEntry
                \/ now - cache[req'[r].key].timestamp > cache[req'[r].key].ttl
             /\ \E o \in Callers \ {r} :
                  req[o].pc \in {"fetching", "decoding", "sleeping"}
                    /\ req[o].key = req'[r].key)
              => /\ req'[r].pc = "fetching"
                 /\ req'[r].calls = 1
                 /\ \A o \in Callers \ {r} :
                      req'[o] = req[o] /\ req[o].ctrl # req'[r].ctrl
         /\ (req[r].pc = "decoding" /\ req'[r].pc = "resolved")
              => /\ req'[r].data = req[r].body
                 /\ config.enableCache
                      => cache'[req[r].key] =
                           [data |-> req[r].body, timestamp |-> now,
                            ttl |-> config.cacheTTL]]_vars

\* both requests went to the network for the same key and the entry left is
\* that of the request that started first and completed last
C23_Witness ==
    /\ req["r1"].pc = "resolved" /\ req["r2"].pc = "resolved"
    /\ ~req["r1"].fromCache /\ ~req["r2"].fromCache
    /\ req["r1"].key = req["r2"].key
    /\ req["r1"].call = 1 /\ req["r2"].call = 2
    /\ req["r1"].data = "p1" /\ req["r2"].data = "p2"
    /\ cache[req["r1"].key] # NoEntry
    /\ cache[req["r1"].key].data = "p1"

\* C24: a logical request whose external signal is aborted while it sleeps
\* in a retry backoff goes on to its next attempt, and that attempt does not
\* succeed: the request never resolves.
C24_CancelledAsleepNeverSucceeds ==
    \A r \in Callers :
        req[r].asleep = "signal" => req[r].pc # "resolved"

\* the timeout an attempt of rq is to have: the override of the call if
\* given, else the configured default
TimeoutOf(rq) ==
    IF rq.override = {} THEN config.timeout
    ELSE CHOOSE t \in rq.override : TRUE

\* C25: every pending timeout timer belongs to the attempt that is awaiting
\* its response and is due the effective timeout (the override of the call if
\* given, else the default) after the start of that attempt; an attempt
\* aborted by a timer was aborted when its own timer was due; no timer is
\* left from an attempt that has settled.
C25_TimeoutIsScopedToOneAttempt ==
    /\ \A t \in timers :
         \E r \in Callers :
           /\ req[r].pc = "fetching"
           /\ req[r].ctrl = t.ctrl
           /\ t.due = req[r].startedAt + TimeoutOf(req[r])
    /\ \A r \in Callers :
         /\ (req[r].pc = "fetching" /\ ~req[r].aborted)
              => \E t \in timers : t.ctrl = req[r].ctrl
         /\ (req[r].pc = "fetching" /\ req[r].cause = "timeout")
              => now >= req[r].startedAt + TimeoutOf(req[r])
         /\ req[r].pc \in {"decoding", "sleeping", "resolved", "rejected"}
              => \A t \in timers : t.ctrl.call # req[r].call

\* the second attempt of a call with a timeout override, aborted by its own
\* timer, due the override after the start of that attempt
C25_Witness ==
    \E r \in Callers :
        /\ req[r].pc = "fetching" /\ req[r].attempt = 1
        /\ req[r].cause = "timeout" /\ req[r].override # {}
        /\ req[r].startedAt = TickMs
        /\ now = req[r].startedAt + TimeoutOf(req[r])
        /\ timers = {}

\* C26: the error a logical request carries after a failed attempt, and the
\* one it rejects with, is the error the attempt produced, unchanged: Http with
\* the failing status of the response, Parse after a success status,
\* Cancellation or Timeout after an abort without response, else Network (or
\* the generic error), whichever way the retry layer stopped.
C26_RetryLayerNeverReclassifies ==
    \A r \in Callers :
        req[r].pc \in {"sleeping", "rejected"}
          => LET e == req[r].err
                 st == req[r].status
             IN
             /\ e.kind # None
             /\ (st # 0 /\ (st < 200 \/ st > 299))
                  => e = [kind |-> "Http", status |-> st, timeout |-> 0]
             /\ (st >= 200 /\ st <= 299)
                  => e = [kind |-> "Parse", status |-> 0, timeout |-> 0]
             /\ (st = 0 /\ req[r].cause # None)
                  => /\ e.kind \in {"Cancellation", "Timeout"}
                     /\ e.status = 0
             /\ (st = 0 /\ req[r].cause = None)
                  => /\ e.kind \in {"Network", "Api"}
                     /\ e.status = 0 /\ e.timeout = 0

\* a request that rejected with the Http error of its last attempt once
\* maxRetries was exhausted
C26_Witness ==
    \E r \in Callers :
        /\ req[r].pc = "rejected" /\ ~req[r].skipRetries
        /\ config.maxRetries = 2 /\ req[r].attempt = 2
        /\ req[r].status = 500
        /\ req[r].err = [kind |-> "Http", status |-> 500, timeout |-> 0]

\* the number of entries of a cache
SizeOf(c) == Cardinality({k \in DOMAIN c : c[k] # NoEntry})

\* a step of clearCache or clearCacheEntry that removes something: the cache
\* changes while no request moves and the sweep does not run
ClearStep ==
    /\ nextCleanup' = nextCleanup
    /\ cache' # cache
    /\ req' = req

\* C27: clearCache() leaves 0 entries; clearCacheEntry(key) removes the entry
\* of key and leaves every other entry as it was; a step of either leaves the
\* registry, the timers and the requests as they were.
C27_ClearingTouchesOnlyTheCache ==
    [][ClearStep
         => /\ SizeOf(cacheCleared(cache)) = 0
            /\ \A k \in MapKeys :
                 /\ cacheWithout(cache, k)[k] = NoEntry
                 /\ \A j \in MapKeys \ {k} :
                      cacheWithout(cache, k)[j] = cache[j]
            /\ \/ \A k \in MapKeys : cache'[k] = NoEntry
               \/ \E k \in MapKeys :
                    /\ cache[k] # NoEntry /\ cache'[k] = NoEntry
                    /\ \A j \in MapKeys \ {k} : cache'[j] = cache[j]
            /\ activeRequests' = activeRequests
            /\ timers' = timers
            /\ \A r \in Callers : req'[r].aborted = req[r].aborted]_vars

\* the valid entry a skipCache request found was cleared, before it could
\* expire, while the attempt of the request stays registered and in flight
C27_Witness ==
    \E r \in Callers :
        /\ now = 0
        /\ req[r].pc = "fetching" /\ ~req[r].aborted /\ req[r].call = 2
        /\ req[r].hadEntry /\ req[r].skipCache
        /\ cache[req[r].key] = NoEntry
        /\ activeRequests[req[r].endpoint] = req[r].ctrl

\* C29: while attempts for an endpoint await their response, the registry
\* entry of that endpoint is the controller of one of them (of the most
\* recently started one; of the only one when there is one).
C29_RegistryHoldsAnAttemptInFlight ==
    \A e \in Endpoints :
        LET inFlight == {r \in Callers :
                           /\ req[r].pc = "fetching" /\ ~req[r].aborted
                           /\ req[r].endpoint = e}
        IN  inFlight # {}
              => activeRequests[e] \in {req[r].ctrl : r \in inFlight}

\* status codes around the bounds of the two ranges
HttpStatusProbe == {399, 400, 499, 500, 599, 600}

\* C28: for an HttpError with status s, isClientError() holds iff
\* 400 <= s < 500 and isServerError() iff 500 <= s < 600, never both; an Http
\* error that could be retried (retries left, skipRetries unset) is given up
\* exactly when isClientError() holds.
C28_ClientAndServerErrors ==
    /\ \A s \in HttpStatusProbe \cup Statuses :
         LET e == [kind |-> "Http", status |-> s, timeout |-> 0] IN
         /\ isClientError(e) <=> (400 <= s /\ s < 500)
         /\ isServerError(e) <=> (500 <= s /\ s < 600)
         /\ ~(isClientError(e) /\ isServerError(e))
    /\ \A r \in Callers :
         (/\ req[r].pc \in {"sleeping", "rejected"}
          /\ req[r].err.kind = "Http"
          /\ ~req[r].skipRetries /\ req[r].attempt < config.maxRetries)
           => /\ req[r].pc = "rejected" <=> isClientError(req[r].err)
              /\ req[r].pc = "rejected"
                   <=> (400 <= req[r].err.status /\ req[r].err.status < 500)

\* a 400 answered to the second attempt and given up with a retry left
C28_Witness ==
    \E r \in Callers :
        /\ req[r].pc = "rejected" /\ req[r].err.kind = "Http"
        /\ req[r].err.status = 400 /\ isClientError(req[r].err)
        /\ ~isServerError(req[r].err)
        /\ req[r].attempt = 1 /\ config.maxRetries = 2

\* C30: a read of key k changes nothing and returns absent when k has no
\* entry, returns the payload and changes nothing when the entry is valid
\* (now - timestamp <= ttl), and returns absent and deletes that one entry,
\* leaving every other entry as it was, when the entry is expired.
C30_EffectsOfARead ==
    \A k \in MapKeys :
        LET entry == cache[k]
            value == getFromCache(k)
            after == cacheAfterGet(k)
        IN
        /\ entry = NoEntry => (value = None /\ after = cache)
        /\ (entry # NoEntry /\ now - entry.timestamp <= entry.ttl)
             => (value = entry.data /\ after = cache)
        /\ (entry # NoEntry /\ now - entry.timestamp > entry.ttl)
             => /\ value = None
                /\ after[k] = NoEntry
                /\ \A j \in MapKeys \ {k} : after[j] = cache[j]

\* an expired entry next to a valid one: the read of the first deletes it and
\* keeps the second
C30_Witness ==
    \E k \in CacheKeys, j \in CacheKeys :
        /\ cache[k] # NoEntry /\ now - cache[k].timestamp > cache[k].ttl
        /\ cache[j] # NoEntry /\ now - cache[j].timestamp <= cache[j].ttl
        /\ getFromCache(k) = None /\ getFromCache(j) = cache[j].data
        /\ cacheAfterGet(k) = [cache EXCEPT ![k] = NoEntry]

\* ------------------------------------------------------------------------
\* Properties of the sweep, the statistics and the cancellations
\* ------------------------------------------------------------------------
\* C31: a run of the periodic sweep removes every entry that is expired at
\* that time (now - timestamp > ttl) and leaves every other entry as it is,
\* so that no expired entry remains after it; it is run by the interval
\* timer and not by a read: no request starts or moves in the step.
C31_SweepRemovesExactlyTheExpired ==
    [][nextCleanup' # nextCleanup
         => /\ \A k \in MapKeys :
                 IF cache[k] # NoEntry
                      /\ now - cache[k].timestamp > cache[k].ttl
                 THEN cache'[k] = NoEntry
                 ELSE cache'[k] = cache[k]
            /\ \A k \in MapKeys :
                 cache'[k] # NoEntry
                   => now - cache'[k].timestamp <= cache'[k].ttl
            /\ req' = req
            /\ started' = started]_vars

\* the first sweep has removed the expired entry of the latest topics, which
\* nothing has read since it was stored, and has kept the entry of the topic,
\* whose age was its ttl
C31_Witness ==
    /\ now = 60000 /\ nextCleanup = 120000
    /\ started = 2
    /\ \E r \in Callers, o \in Callers :
         /\ req[r].pc = "resolved" /\ ~req[r].fromCache
         /\ req[r].key = "latest-topics"
         /\ req[o].pc = "resolved" /\ ~req[o].fromCache
         /\ req[o].key = "topic-1"
    /\ cache["latest-topics"] = NoEntry
    /\ cache["topic-1"] # NoEntry
    /\ cache["topic-1"].timestamp = 30000 /\ cache["topic-1"].ttl = 30000

\* C32: getCacheStats() is a snapshot: totalEntries is the number of stored
\* entries, every stored entry is reported once with its age and ttl and with
\* expired = (now - timestamp > ttl) at the time of the call, and the call
\* leaves the cache as it is, expired entries included.
C32_StatsAreASnapshot ==
    LET stats == getCacheStats
        stored == {k \in MapKeys : cache[k] # NoEntry}
    IN
    /\ stats.totalEntries = Cardinality(stored)
    /\ Cardinality(stats.entries) = Cardinality(stored)
    /\ \A k \in stored :
         \E e \in stats.entries :
             /\ e.key = k
             /\ e.age = now - cache[k].timestamp
             /\ e.ttl = cache[k].ttl
             /\ e.expired <=> (now - cache[k].timestamp > cache[k].ttl)
    /\ cacheAfterStats = cache

\* statistics of a cache that holds an expired entry and a valid one
C32_Witness ==
    /\ getCacheStats.totalEntries = 2
    /\ \E e \in getCacheStats.entries : e.expired /\ e.age = 60000
    /\ \E e \in getCacheStats.entries : ~e.expired
    /\ \E k \in CacheKeys :
         cache[k] # NoEntry /\ now - cache[k].timestamp > cache[k].ttl

\* C33: cancelRequest(key) aborts the handle registered under key and removes
\* it; every other registry entry and every request whose attempt holds
\* another handle are left as they are; when nothing is registered under key
\* the call changes nothing.
C33_CancelRequestTouchesOneHandle ==
    \A k \in MapKeys :
        LET registry == activeRequestsAfterCancel(k)
            requests == reqAfterCancel(k)
        IN
        /\ registry[k] = NoCtrl
        /\ \A j \in MapKeys \ {k} : registry[j] = activeRequests[j]
        /\ \A r \in Callers :
             IF /\ req[r].pc \in {"fetching", "decoding"}
                /\ activeRequests[k] # NoCtrl
                /\ req[r].ctrl = activeRequests[k]
             THEN /\ requests[r].aborted
                  /\ requests[r].pc = req[r].pc
                  /\ requests[r].ctrl = req[r].ctrl
             ELSE requests[r] = req[r]
        /\ activeRequests[k] = NoCtrl
             => registry = activeRequests /\ requests = req

\* the attempt of the second request was cancelled by cancelRequest while
\* the first attempt of the first request, for the other endpoint, stays in
\* flight and registered
C33_Witness ==
    \E r \in Callers, o \in Callers :
        /\ req[r].call = 2 /\ req[o].call = 1
        /\ req[r].pc = "fetching" /\ req[r].aborted
        /\ req[r].cause = "cancelRequest"
        /\ activeRequests[req[r].endpoint] = NoCtrl
        /\ req[o].pc = "fetching" /\ ~req[o].aborted /\ req[o].attempt = 0
        /\ req[o].endpoint # req[r].endpoint
        /\ activeRequests[req[o].endpoint] = req[o].ctrl

\* C34: cancelAllRequests() aborts every handle that is in the registry when
\* it is called and leaves the registry empty; a request whose attempt holds
\* no registered handle is left as it is, and on an empty registry the call
\* changes nothing.
C34_CancelAllAbortsEveryHandle ==
    LET registered == {activeRequests[k] : k \in MapKeys} \ {NoCtrl}
        registry == activeRequestsAfterCancelAll
        requests == reqAfterCancelAll
    IN
    /\ \A k \in MapKeys : registry[k] = NoCtrl
    /\ \A r \in Callers :
         IF req[r].pc \in {"fetching", "decoding"}
              /\ req[r].ctrl \in registered
         THEN /\ requests[r].aborted
              /\ requests[r].pc = req[r].pc
              /\ requests[r].ctrl = req[r].ctrl
         ELSE requests[r] = req[r]
    /\ registered = {} => registry = activeRequests /\ requests = req

\* two attempts for two endpoints were aborted by one cancelAllRequests,
\* which left the registry empty
C34_Witness ==
    /\ \A k \in MapKeys : activeRequests[k] = NoCtrl
    /\ req["r1"].pc = "fetching" /\ req["r2"].pc = "fetching"
    /\ req["r1"].aborted /\ req["r2"].aborted
    /\ req["r1"].cause = "cancelAllRequests"
    /\ req["r2"].cause = "cancelAllRequests"
    /\ req["r1"].endpoint # req["r2"].endpoint

\* C35: an error classified inside the attempt leaves it unchanged: an
\* attempt that failed after a response with a success status (200..299)
\* failed with a Parse error, and one that failed after a response with
\* another status failed with an Http error carrying that status; neither
\* ended as a Network, Timeout, Cancellation or generic error.
C35_ClassifiedErrorsPassThrough ==
    \A r \in Callers :
        (req[r].pc \in {"sleeping", "rejected"} /\ req[r].status # 0)
          => IF req[r].status >= 200 /\ req[r].status <= 299
             THEN req[r].err = [kind |-> "Parse", status |-> 0, timeout |-> 0]
             ELSE req[r].err =
                    [kind |-> "Http", status |-> req[r].status, timeout |-> 0]

\* a request whose only attempt got a 200 with a body that does not decode,
\* and was not aborted, ended with the Parse error
C35_Witness ==
    \E r \in Callers :
        /\ req[r].pc = "rejected" /\ req[r].status = 200
        /\ req[r].cause = None /\ req[r].calls = 1
        /\ req[r].err.kind = "Parse"

\* C36: once cancelRequest or cancelAllRequests has aborted the attempt of a
\* logical request, that request starts no further attempt.
C36_CancelledRequestIsNotRetried ==
    [][\A r \in Callers :
         req[r].cause \in {"cancelRequest", "cancelAllRequests"}
           => ~(req'[r].call = req[r].call /\ req'[r].calls > req[r].calls)
      ]_vars

\* C37: a logical request started with a signal that is already aborted, and
\* that went to the network, does not resolve: no step takes its first
\* attempt, which no later abort of the signal can have spared, to a
\* successful return.
C37_PreAbortedSignalNeverResolves ==
    [][\A r \in Callers :
         (/\ req[r].signal = "aborted" /\ req[r].attempt = 0
          /\ req[r].pc \in {"fetching", "decoding"})
           => req'[r].pc # "resolved"]_vars

\* C38: a logical request that was in flight when clearCache(),
\* clearCacheEntry(key) or the sweep removed the entry of its key (the entry
\* was valid when the request started and is gone) and that then succeeds
\* still stores its result: when it returns, the cache holds under its key a
\* valid entry with the returned payload.
C38_ClearingSparesRequestsInFlight ==
    [][\A r \in Callers :
         (/\ req[r].pc = "decoding" /\ req'[r].pc = "resolved"
          /\ req[r].hadEntry /\ cache[req[r].key] = NoEntry)
           => /\ req'[r].data = req[r].body
              /\ req'[r].data \in {"p1", "p2", "p3"}
              /\ cache'[req[r].key] # NoEntry
              /\ cache'[req[r].key].data = req'[r].data
              /\ now - cache'[req[r].key].timestamp
                    <= cache'[req[r].key].ttl]_vars

\* the entry that was valid when the request started was cleared at once,
\* before it could expire, and the attempt has received a response whose
\* body decodes
C38_Witness ==
    \E r \in Callers :
        /\ req[r].pc = "decoding" /\ ~req[r].aborted
        /\ req[r].body = "p2"
        /\ req[r].hadEntry /\ req[r].skipCache
        /\ req[r].startedAt = now /\ now = 0
        /\ cache[req[r].key] = NoEntry

\* C39: with enableCache = false the cache holds no entry in any reachable
\* state, and every fetch makes at least one call of the global fetch and is
\* never served from the cache, whatever skipCache is.
C39_DisabledCacheStaysEmpty ==
    ~config.enableCache
      => /\ \A k \in MapKeys : cache[k] = NoEntry
         /\ Cardinality({k \in MapKeys : cache[k] # NoEntry}) = 0
         /\ \A r \in Callers :
              req[r].call > 0 => ~req[r].fromCache /\ req[r].calls >= 1

\* the second fetch of a service without cache, called without skipCache,
\* has resolved over the network and nothing is stored
C39_Witness ==
    /\ ~config.enableCache
    /\ started = 2
    /\ \E r \in Callers :
         /\ req[r].pc = "resolved" /\ req[r].call = 2
         /\ ~req[r].skipCache /\ req[r].calls >= 1
         /\ req[r].data = "p2"
    /\ \A k \in MapKeys : cache[k] = NoEntry

\* C40: the TTL is not sliding: a fetch served from the cache leaves the
\* cache as it is, timestamp and ttl included; an entry stays the same until
\* it is removed or a request that succeeded over the network stores under
\* its key, with the time of the store as timestamp; and an entry stored at
\* t0 with TTL T reads as absent whenever now > t0 + T.
C40_TtlIsNotSliding ==
    /\ [](\A k \in MapKeys :
            (cache[k] # NoEntry /\ now > cache[k].timestamp + cache[k].ttl)
              => getFromCache(k) = None)
    /\ [][/\ \A r \in Callers :
              (req'[r].call # req[r].call /\ req'[r].fromCache)
                => cache' = cache
          /\ cache' # cache
               => \A k \in MapKeys :
                    (cache'[k] # cache[k] /\ cache'[k] # NoEntry)
                      => /\ cache'[k].timestamp = now
                         /\ \E r \in Callers :
                              /\ req[r].pc = "decoding"
                              /\ req'[r].pc = "resolved"
                              /\ req[r].key = k]_vars

\* a hit at the last instant of the entry's validity has left its timestamp
\* at the time of the store
C40_Witness ==
    \E r \in Callers :
        /\ req[r].pc = "resolved" /\ req[r].fromCache /\ req[r].call = 2
        /\ req[r].data = "p1"
        /\ now = 30000
        /\ cache[req[r].key].data = "p1"
        /\ cache[req[r].key].timestamp = 0 /\ cache[req[r].key].ttl = 30000

====
